---- MODULE Spec2Model ----
(***************************************************************************)
(* DocMind AI front end: the document store (DocumentContext.tsx), the     *)
(* content loader (extractPDFContentFromPath) and the three derived-result *)
(* cache pages (AI insights, similar ideas, podcast recommendations).      *)
(*                                                                         *)
(* React state is modelled as it is committed: a handler's setState calls  *)
(* take effect together, and the passive effects (useEffect) of the store  *)
(* and of the mounted page run afterwards as steps of their own            *)
(* (StoreEffects, PageEffects).  User and network events are taken when no *)
(* effect is pending.                                                      *)
(***************************************************************************)
EXTENDS Integers, Sequences, FiniteSets, TLC

VARIABLES
    previousFiles,          \* DocumentFile[]  (useState, DocumentContext.tsx:42)
    currentFiles,           \* DocumentFile[]  (useState, DocumentContext.tsx:43)
    selectedFile,           \* DocumentFile | null, as None / Some(file)
    isInitialSetupComplete, \* boolean
    isLoadingContent,       \* boolean
    storeDirty,             \* state slots of the store changed since its effects last ran
    extractions,            \* in-flight extractPDFContentFromPath calls (the file each was started for)
    removals,               \* in-flight removeCurrentFile / removePreviousFile calls
    localStorage,           \* key -> None / Some(value)
    page,                   \* the mounted route: "index" or one of the cache pages
    items,                  \* the mounted cache page's result set (similarities / insights / aiRecommendations)
    lastDocumentState,      \* the mounted cache page's lastDocumentState
    rendered,               \* the dependency values of the page's last effect pass, None before the first
    itemsChanged,           \* the result set was replaced (new array identity) since the last effect pass
    generation,             \* the page's in-flight generate/refresh call, None / Some(request)
    nextId,                 \* the next id an upload assigns
    resetFlow,              \* the sidebar's handleResetAll call: "idle", or what it awaits
    toast,                  \* the notification shown last, None / Some(title)
    uploads,                \* the sidebar's running onDropNew / onDropPrevious calls
    confirmDialog,          \* ConfirmationDialog | null (useState, NotificationContext.tsx:36), as the position in awaiting of the promise its buttons resolve
    awaiting,               \* the handlers suspended at await showConfirm(...), oldest first
    history,                \* history: the ids added to each list, in order, and the ids removed
    lastOp                  \* history: the last handler or completion that ran

vars == <<previousFiles, currentFiles, selectedFile, isInitialSetupComplete,
          isLoadingContent, storeDirty, extractions, removals, localStorage,
          page, items, lastDocumentState, rendered, itemsChanged, generation,
          nextId, resetFlow, toast, uploads, confirmDialog, awaiting,
          history, lastOp>>

storeVars == <<previousFiles, currentFiles, selectedFile, isInitialSetupComplete,
               isLoadingContent, storeDirty, extractions, removals>>

pageVars == <<page, items, lastDocumentState, rendered, itemsChanged, generation>>

confirmVars == <<confirmDialog, awaiting>>

uiVars == <<resetFlow, toast, uploads, confirmDialog, awaiting>>

histVars == <<history>>

-----------------------------------------------------------------------------
(* Bounds *)

\* ids handed out by uploads: 1..MaxId
MaxId == 3

\* the longest result list a generation returns
MaxResults == 1

\* ids handed out where records of several kinds and content extraction are
\* explored: 1..MaxStoreId
MaxStoreId == 2

\* the most extraction requests awaited at once where repeated selection
\* can start them without end
MaxInFlight == 2

\* the most records one addPreviousFiles call carries
MaxBatch == 2

\* the most drops whose uploads run at once
MaxDrops == 2

\* ids handed out where extraction outcomes or page reloads are followed
MaxExtractId == 1

\* suspended confirmations beyond which the user asks for no further dialog
MaxConfirms == 2

-----------------------------------------------------------------------------
(* Optional values and small helpers *)

None == <<>>

Some(v) == <<v>>

IsSome(o) == o # <<>>

Get(o) == o[1]

Ids(list) == [i \in 1..Len(list) |-> list[i].id]

Range(s) == {s[i] : i \in 1..Len(s)}

Filter(list, Keep(_)) == SelectSeq(list, Keep)

Map(list, F(_)) == [i \in 1..Len(list) |-> F(list[i])]

-----------------------------------------------------------------------------
(* Text.  A string is the sequence of its words and punctuation marks;     *)
(* String.prototype.includes is the search for a contiguous run of them.   *)

Includes(text, pat) ==
    \E i \in 0..(Len(text) - Len(pat)) :
        \A j \in 1..Len(pat) : text[i + j] = pat[j]

StartsWith(path, prefix) == Len(path) >= 2 /\ path[1] = prefix

\* content: undefined (and the empty string) is falsy in JavaScript
NoContent == <<>>

Truthy(text) == text # <<>>

ValidText == <<"Lorem", "ipsum", "dolor">>

FileName == "doc.pdf"

ApiBaseUrl == "API_BASE_URL"

ContentMissingText ==
    <<"Content", "Missing", "This", "file", "was", "uploaded", "but", "the",
      "content", "is", "missing", ".", "Try", "refreshing", "the", "page", "or",
      "re-uploading", "the", "file", ".">>

ErrorLoadingText ==
    <<"Error", "Loading", "Content", "Failed", "to", "extract", "content", "from",
      "this", "PDF", "file", ".", "Please", "try", "selecting", "the", "file",
      "again", ".">>

FileRemovedText ==
    <<"File", "Removed", "This", "file", "was", "cached", "with", "an", "invalid",
      "path", "and", "has", "been", "removed", ".", "Please", "re-upload", "your",
      "PDF", "file", "to", "access", "its", "content", ".">>

\* uploadAndExtractFile's catch branch: `Error uploading ${file.name}: ${message}`
UploadErrorText ==
    <<"Error", "uploading", FileName, ":", "Upload", "failed", ":", "500">>

CannotConnectText ==
    <<"Cannot", "connect", "to", "backend", "server",
      "The", "PDF", "extraction", "service", "is", "not", "reachable", ".",
      "This", "could", "be", "due", "to", ":",
      "-", "backend", "server", "is", "not", "running",
      "-", "CORS", "configuration", "issues",
      "-", "Network", "connectivity", "problems",
      "Please", "ensure", "the", "backend", "is", "running", "on", ApiBaseUrl,
      "To", "start", "the", "backend", ":", "cd", "backend", "python",
      "pdf_extractor.py">>

ErrorProcessingText(fileName, errorMessage) ==
    <<"Error", "processing", fileName>> \o errorMessage \o
    <<"backend", "is", "running", "at", ":", ApiBaseUrl,
      "Please", "check", "the", "backend", "logs", "for", "more", "details", ".">>

-----------------------------------------------------------------------------
(* The extraction service as the content loader sees it *)

\* what one call to the extract-by-path endpoint can end in
ExtractionOutcomes ==
    {"ok", "okEmpty", "failedToFetch", "networkError", "loadFailed",
     "timeout", "http404", "http500", "thrownNonError"}

FailureOutcomes == ExtractionOutcomes \ {"ok", "okEmpty"}

\* a faulty variant: the timer's message does not say "timeout"
ErrorMessageMutant(outcome) == <<"Request", "timed", "out">>

\* the message of the error the try block ends in, for a failing outcome
ErrorMessage(outcome) ==
    CASE outcome = "failedToFetch"  -> <<"Failed", "to", "fetch">>
      [] outcome = "networkError"   -> <<"NetworkError", "when", "attempting", "to",
                                         "fetch", "resource", ".">>
      [] outcome = "loadFailed"     -> <<"Load", "failed">>
      [] outcome = "timeout"        -> <<"Request", "timeout", "after", "30000ms">>
      [] outcome = "http404"        -> <<"HTTP", "404", ":", "{", "detail", ":",
                                         "File", "not", "found", "}">>
      [] outcome = "http500"        -> <<"HTTP", "500", ":", "Internal", "Server",
                                         "Error">>
      [] OTHER                      -> <<"Unknown", "error">>

IsNetworkMessage(errorMessage) ==
    \/ Includes(errorMessage, <<"Failed", "to", "fetch">>)
    \/ Includes(errorMessage, <<"NetworkError">>)

\* extractPDFContentFromPath: always resolves, with {text, pages}
extractPDFContentFromPath(fileName, outcome) ==
    IF outcome = "ok" THEN [text |-> ValidText, pages |-> 2]
    ELSE IF outcome = "okEmpty"
    THEN [text |-> <<"No", "text", "content", "found", "in", "PDF">>, pages |-> 1]
    ELSE IF IsNetworkMessage(ErrorMessage(outcome))
    THEN [text |-> CannotConnectText, pages |-> 1]
    ELSE [text |-> ErrorProcessingText(fileName, ErrorMessage(outcome)), pages |-> 1]

-----------------------------------------------------------------------------
(* Document records *)

UploadedPath == <<"uploaded", FileName>>

FailedPath == <<"failed", FileName>>

LibraryPath == <<"library", FileName>>

LegacyPath == <<"data", "2024", FileName>>

File(id, savedPath, content, pages) ==
    [id |-> id, savedPath |-> savedPath, content |-> content,
     pages |-> pages, lastRead |-> 0]

\* selectFile's isErrorContent
IsErrorContent(content) ==
    /\ Truthy(content)
    /\ \/ Includes(content, <<"Cannot", "extract", "content">>)
       \/ Includes(content, <<"Error", ":">>)
       \/ Includes(content, <<"backend", "not", "running">>)
       \/ Includes(content, <<"Error", "Loading", "Content">>)
       \/ Includes(content, <<"timeout">>)
       \/ Includes(content, <<"HTTP", "404">>)
       \/ Includes(content, <<"File", "not", "found">>)

\* the sidebar's condition for showing "Retry PDF extraction" on a list entry
RetryOffered(doc) ==
    /\ Truthy(doc.content)
    /\ \/ Includes(doc.content, <<"Cannot", "extract", "content">>)
       \/ Includes(doc.content, <<"Error", ":">>)
       \/ Includes(doc.content, <<"timeout">>)

HasValidContent(file) == Truthy(file.content) /\ ~IsErrorContent(file.content)

IsUploadedFile(file) ==
    StartsWith(file.savedPath, "uploaded") \/ StartsWith(file.savedPath, "failed")

IsLegacyPath(file) == StartsWith(file.savedPath, "data")

\* Array.prototype.join(','): the elements with a comma between neighbours
RECURSIVE Join(_)
Join(seq) ==
    IF Len(seq) <= 1 THEN seq
    ELSE <<Head(seq), ",">> \o Join(Tail(seq))

\* a faulty variant: the ids are joined as they stand in the lists
DocumentStateIdMutant(cur, prev) == Join(Ids(cur) \o Ids(prev))

\* documentStateId: the ids of both lists, sorted and joined
DocumentStateId(cur, prev) ==
    Join(SortSeq(Ids(cur) \o Ids(prev), LAMBDA a, b : a < b))

documentStateId == DocumentStateId(currentFiles, previousFiles)

totalFiles == Len(currentFiles) + Len(previousFiles)

-----------------------------------------------------------------------------
(* Browser storage *)

CacheNames == {"aiInsights", "documentSimilarities", "aiPodcastRecommendations"}

StateKey(c) ==
    CASE c = "aiInsights"            -> "aiInsights_state"
      [] c = "documentSimilarities"  -> "documentSimilarities_state"
      [] OTHER                       -> "aiPodcastRecommendations_state"

DerivedKeys == CacheNames \cup {StateKey(c) : c \in CacheNames}

StoreKeys == {"isInitialSetupComplete", "previousFiles", "currentFiles"}

StorageKeys == StoreKeys \cup DerivedKeys

\* localStorage.removeItem for each key of a set
RemoveItems(ls, keys) == [k \in DOMAIN ls |-> IF k \in keys THEN None ELSE ls[k]]

\* boolean.toString()
BoolToString(b) == IF b THEN "true" ELSE "false"

\* JSON.stringify of a list of records: a property whose value is undefined
\* is left out
StringifyFile(f) ==
    IF f.content = NoContent
    THEN [id |-> f.id, savedPath |-> f.savedPath, pages |-> f.pages,
          lastRead |-> f.lastRead]
    ELSE f

Stringify(files) == [i \in 1..Len(files) |-> StringifyFile(files[i])]

\* JSON.parse, and the read of file.content on what it returns
ParseFile(p) ==
    [id |-> p.id, savedPath |-> p.savedPath,
     content |-> IF "content" \in DOMAIN p THEN p.content ELSE NoContent,
     pages |-> p.pages, lastRead |-> p.lastRead]

Parse(json) == [i \in 1..Len(json) |-> ParseFile(json[i])]

-----------------------------------------------------------------------------
(* Effect scheduling *)

\* the cache page has an effect pass to run: it was just mounted, or a
\* dependency of one of its three effects changed since the last pass
PagePending ==
    /\ page # "index"
    /\ IF rendered = None
       THEN TRUE
       ELSE itemsChanged \/ Get(rendered).fp # documentStateId
                         \/ Get(rendered).last # lastDocumentState

Stable == storeDirty = {} /\ ~PagePending

NoOp == [op |-> "none", arg |-> <<>>, fx |-> FALSE]

Op(name, arg) == [op |-> name, arg |-> arg, fx |-> FALSE]

\* The history of adds and removes is kept only by the specification that
\* checks the lists against it (SpecLists); elsewhere it stays None.
EmptyHistory == [current |-> <<>>, previous |-> <<>>, removed |-> {}]

Recorded(F(_)) == IF history = None THEN None ELSE Some(F(Get(history)))

-----------------------------------------------------------------------------
(* Document store: DocumentContext.tsx *)

\* the slots a change of selectedFile / isLoadingContent marks for the effects
ViewDirty(sel, loading) ==
    IF sel # selectedFile \/ loading # isLoadingContent THEN {"view"} ELSE {}

\* a faulty variant: the "already has content" short-circuit is missing
SelectFileResultMutant(file, loading) ==
    [selected |-> IF loading THEN selectedFile ELSE Some(file), start |-> ~loading]

\* selectFile(file), up to its first await: the new selectedFile, and whether
\* an extraction request is issued (isLoadingContent is then true)
SelectFileResult(file, loading) ==
    IF loading
    THEN [selected |-> selectedFile, start |-> FALSE]
    ELSE IF IsUploadedFile(file) /\ HasValidContent(file)
    THEN [selected |-> Some(file), start |-> FALSE]
    ELSE IF IsUploadedFile(file)
    THEN [selected |-> Some([file EXCEPT !.content = ContentMissingText]),
          start |-> FALSE]
    ELSE IF ~Truthy(file.content) \/ IsErrorContent(file.content)
    THEN IF IsLegacyPath(file)
         THEN [selected |-> Some([file EXCEPT !.content = ErrorLoadingText]),
               start |-> FALSE]
         ELSE [selected |-> Some(file), start |-> TRUE]
    ELSE [selected |-> Some(file), start |-> FALSE]

\* a faulty variant: the new record is put first
AppendFileMutant(list, file) == <<file>> \o list

\* [...prev, file]
AppendFile(list, file) == Append(list, file)

\* a faulty variant: a record that is not in the list is put at its end
ReplaceFileMutant(list, file) ==
    IF file.id \in Range(Ids(list))
    THEN [i \in 1..Len(list) |-> IF list[i].id = file.id THEN file ELSE list[i]]
    ELSE Append(list, file)

\* prev.map(f => f.id === file.id ? updatedFile : f)
ReplaceFile(list, file) ==
    [i \in 1..Len(list) |-> IF list[i].id = file.id THEN file ELSE list[i]]

\* a faulty variant: the filter keeps every record
RemoveFileMutant(list, fileId) == list

\* prev.filter(f => f.id !== fileId)
RemoveFile(list, fileId) == Filter(list, LAMBDA f : f.id # fileId)

addCurrentFile(file) ==
    /\ Stable
    /\ currentFiles' = AppendFile(currentFiles, file)
    /\ storeDirty' = storeDirty \cup {"currentFiles"}
    /\ nextId' = nextId + 1
    /\ history' = Recorded(LAMBDA h : [h EXCEPT !.current = Append(@, file.id)])
    /\ UNCHANGED uiVars
    /\ lastOp' = NoOp
    /\ UNCHANGED <<previousFiles, selectedFile, isInitialSetupComplete,
                   isLoadingContent, extractions, removals, localStorage>>
    /\ UNCHANGED pageVars

addPreviousFiles(files) ==
    /\ Stable
    /\ previousFiles' = previousFiles \o files
    /\ storeDirty' = storeDirty \cup {"previousFiles"}
    /\ nextId' = nextId + Len(files)
    /\ history' = Recorded(LAMBDA h : [h EXCEPT !.previous = @ \o Ids(files)])
    /\ UNCHANGED uiVars
    /\ lastOp' = NoOp
    /\ UNCHANGED <<currentFiles, selectedFile, isInitialSetupComplete,
                   isLoadingContent, extractions, removals, localStorage>>
    /\ UNCHANGED pageVars

selectFile(file) ==
    LET r == SelectFileResult(file, isLoadingContent) IN
    /\ Stable
    /\ selectedFile' = r.selected
    /\ isLoadingContent' = (isLoadingContent \/ r.start)
    /\ extractions' = IF r.start THEN Append(extractions, file) ELSE extractions
    /\ storeDirty' = storeDirty \cup ViewDirty(r.selected, isLoadingContent \/ r.start)
    /\ UNCHANGED uiVars
    /\ lastOp' = NoOp
    /\ UNCHANGED <<previousFiles, currentFiles, isInitialSetupComplete, removals,
                   localStorage, nextId>>
    /\ UNCHANGED histVars
    /\ UNCHANGED pageVars

\* lastRead: new Date().toLocaleString(), a value the record did not have
NewTimestamp(previous) == IF previous = 1 THEN 2 ELSE 1

\* selectFile(file) called twice in a row by one caller: both calls run the
\* same useCallback closure, so both read the isLoadingContent of one render
selectFileTwice(file) ==
    LET first == SelectFileResult(file, isLoadingContent)
        second == SelectFileResult(file, isLoadingContent)
        started == (IF first.start THEN <<file>> ELSE <<>>)
                     \o (IF second.start THEN <<file>> ELSE <<>>)
    IN
    /\ Stable
    /\ selectedFile' = second.selected
    /\ isLoadingContent' = (isLoadingContent \/ first.start \/ second.start)
    /\ extractions' = extractions \o started
    /\ storeDirty' = storeDirty \cup ViewDirty(selectedFile', isLoadingContent')
    /\ UNCHANGED uiVars
    /\ lastOp' = Op("selectFileTwice",
                    [present |-> Truthy(file.content),
                     valid |-> Truthy(file.content) /\ ~IsErrorContent(file.content),
                     path |-> file.savedPath,
                     second |-> IF second.start THEN 1 ELSE 0])
    /\ UNCHANGED <<previousFiles, currentFiles, isInitialSetupComplete, removals,
                   localStorage, nextId>>
    /\ UNCHANGED histVars
    /\ UNCHANGED pageVars

\* a faulty variant: the flag is reset on the success path only
LoadingAfterSettleMutant(outcome) == outcome \in FailureOutcomes

\* selectFile's finally block: setIsLoadingContent(false)
LoadingAfterSettle(outcome) == FALSE

\* the resolution of the extractPDFContentFromPath call awaited by selectFile
ExtractionSettle(i, outcome) ==
    LET file == extractions[i]
        extracted == extractPDFContentFromPath(FileName, outcome)
        updatedFile == [file EXCEPT !.content = extracted.text,
                                    !.pages = extracted.pages,
                                    !.lastRead = NewTimestamp(file.lastRead)]
    IN
    /\ Stable
    /\ previousFiles' = ReplaceFile(previousFiles, updatedFile)
    /\ currentFiles' = ReplaceFile(currentFiles, updatedFile)
    /\ selectedFile' = Some(updatedFile)
    /\ isLoadingContent' = LoadingAfterSettle(outcome)
    /\ extractions' = [j \in 1..(Len(extractions) - 1) |->
                          IF j < i THEN extractions[j] ELSE extractions[j + 1]]
    /\ storeDirty' = storeDirty \cup {"previousFiles", "currentFiles"}
                       \cup ViewDirty(Some(updatedFile), LoadingAfterSettle(outcome))
    /\ UNCHANGED uiVars
    /\ lastOp' = Op("extraction", [outcome |-> outcome])
    /\ UNCHANGED <<isInitialSetupComplete, removals, localStorage, nextId>>
    /\ UNCHANGED histVars
    /\ UNCHANGED pageVars

\* a faulty variant: one derived key is left behind
ResetKeysMutant == StoreKeys \cup (DerivedKeys \ {"aiInsights"})

\* the keys resetAll removes from storage
ResetKeys == StoreKeys \cup DerivedKeys

\* the store's resetAll, as its callers run it
resetAllCall ==
    /\ previousFiles' = <<>>
    /\ currentFiles' = <<>>
    /\ selectedFile' = None
    /\ isInitialSetupComplete' = FALSE
    /\ isLoadingContent' = FALSE
    /\ localStorage' = RemoveItems(localStorage, ResetKeys)
    /\ storeDirty' = storeDirty \cup {"previousFiles", "currentFiles"}
                       \cup (IF isInitialSetupComplete THEN {"isInitialSetupComplete"} ELSE {})
                       \cup ViewDirty(None, FALSE)
    /\ history' = Recorded(LAMBDA h : EmptyHistory)
    /\ lastOp' = Op("resetAll",
                    [derived |-> \E k \in DerivedKeys : IsSome(localStorage[k]),
                     selected |-> IsSome(selectedFile),
                     loading |-> isLoadingContent])
    /\ UNCHANGED <<extractions, removals, nextId>>
    /\ UNCHANGED pageVars

resetAll ==
    /\ Stable
    /\ resetAllCall
    /\ UNCHANGED uiVars

\* what fetch does in makeRequest: the name and message of the error it
\* raises, per browser, or a response
RequestOutcomes == {"ok", "failedToFetch", "networkError", "abort", "http404", "http500"}

FetchError(outcome) ==
    CASE outcome = "failedToFetch" ->
             [name |-> "TypeError", message |-> <<"Failed", "to", "fetch">>]
      [] outcome = "networkError" ->
             [name |-> "TypeError",
              message |-> <<"NetworkError", "when", "attempting", "to", "fetch",
                            "resource", ".">>]
      [] outcome = "abort" ->
             [name |-> "AbortError",
              message |-> <<"signal", "is", "aborted", "without", "reason">>]
      [] outcome = "http404" ->
             [name |-> "Error", message |-> <<"HTTP", "404", ":", "Not", "Found">>]
      [] OTHER ->
             [name |-> "Error",
              message |-> <<"HTTP", "500", ":", "Internal", "Server", "Error">>]

\* the message of the error makeRequest throws for a failed request
makeRequest(outcome) ==
    LET error == FetchError(outcome)
    IN IF error.name = "AbortError"
       THEN <<"Request", "timed", "out", ".", "The", "AI", "analysis", "is", "taking",
              "too", "long", ".", "Please", "try", "again", "or", "check", "your",
              "backend", "connection", ".">>
       ELSE IF \/ Includes(error.message, <<"fetch">>)
               \/ Includes(error.message, <<"NetworkError">>)
       THEN <<"Unable", "to", "connect", "to", "AI", "backend", ".", "Please", "ensure",
              "the", "backend", "server", "is", "running", "on", "API_BASE_URL">>
       ELSE IF Includes(error.message, <<"timeout">>)
       THEN <<"Request", "timed", "out", ".", "The", "AI", "analysis", "is", "taking",
              "too", "long", ".", "Please", "try", "again", ".">>
       ELSE error.message

testbackendHealth(outcome) == makeRequest(outcome)

\* the errors makeRequest throws carry no status, so the status branches of
\* the catch block are never taken
clearVectorDatabase(outcome) ==
    LET message == makeRequest(outcome)
    IN IF Includes(message, <<"Failed", "to", "fetch">>) \/ Includes(message, <<"fetch">>)
       THEN <<"Cannot", "connect", "to", "FastAPI", "server", "at", "API_BASE_URL", ".",
              "Please", "ensure", "the", "backend", "server", "is", "running", "on",
              "API_BASE_URL">>
       ELSE message

\* the message handleResetAll's catch block sees
ResetError(step, outcome) ==
    IF step = "health"
    THEN <<"Cannot", "connect", "to", "backend", "server", ":">> \o testbackendHealth(outcome)
    ELSE clearVectorDatabase(outcome)

\* the catch block's test for offering the frontend-only reset
OffersFallback(message) ==
    \/ Includes(message, <<"fetch">>)
    \/ Includes(message, <<"network">>)
    \/ Includes(message, <<"Failed", "to", "fetch">>)
    \/ Includes(message, <<"Cannot", "connect", "to", "backend">>)

-----------------------------------------------------------------------------
(* NotificationContext: the confirmation dialog *)

\* the dialogs the sidebar asks for
ResetDialog == [title |-> "Reset Everything?", list |-> "none", id |-> 0]

FallbackDialog == [title |-> "backend Connection Failed", list |-> "none", id |-> 0]

RemoveDialog(list, fileId) == [title |-> "Remove Document?", list |-> list, id |-> fileId]

\* the dialog on the screen, if it is one of the given title
Shows(title) ==
    IF IsSome(confirmDialog) THEN awaiting[Get(confirmDialog)].title = title ELSE FALSE

\* showConfirm: a new promise, whose resolve function only the onConfirm and
\* onCancel of the new dialog hold; setConfirmDialog replaces whatever dialog
\* is shown
showConfirm(dialog) ==
    /\ awaiting' = Append(awaiting, dialog)
    /\ confirmDialog' = Some(Len(awaiting) + 1)

\* onConfirm / onCancel of the dialog on the screen: setConfirmDialog(null) and
\* resolve(...), after which the handler that awaited the promise goes on
resolve ==
    LET i == Get(confirmDialog)
    IN /\ awaiting' = SubSeq(awaiting, 1, i - 1) \o SubSeq(awaiting, i + 1, Len(awaiting))
       /\ confirmDialog' = None

\* hideConfirm, the AlertDialog's onOpenChange: setConfirmDialog(null) only
hideConfirm ==
    /\ Stable
    /\ IsSome(confirmDialog)
    /\ confirmDialog' = None
    /\ awaiting' = awaiting
    /\ UNCHANGED <<resetFlow, toast, uploads>>
    /\ lastOp' = NoOp
    /\ UNCHANGED <<storeVars, localStorage, pageVars, nextId>>
    /\ UNCHANGED histVars

\* onCancel of "Reset Everything?" or "Remove Document?": the promise resolves
\* with false and the handler returns
ConfirmCancel ==
    /\ Stable
    /\ Shows("Reset Everything?") \/ Shows("Remove Document?")
    /\ resolve
    /\ UNCHANGED <<resetFlow, toast, uploads>>
    /\ lastOp' = NoOp
    /\ UNCHANGED <<storeVars, localStorage, pageVars, nextId>>
    /\ UNCHANGED histVars

\* handleResetAll up to its await: the user asks for the reset while no dialog
\* covers the sidebar
ResetAsk ==
    /\ Stable
    /\ resetFlow = "idle"
    /\ confirmDialog = None
    /\ Len(awaiting) < MaxConfirms
    /\ showConfirm(ResetDialog)
    /\ UNCHANGED <<resetFlow, toast, uploads>>
    /\ lastOp' = NoOp
    /\ UNCHANGED <<storeVars, localStorage, pageVars, nextId>>
    /\ UNCHANGED histVars

\* the user confirms "Reset Everything?" and the health check is sent
handleResetAll ==
    /\ Stable
    /\ resetFlow = "idle"
    /\ Shows("Reset Everything?")
    /\ resolve
    /\ resetFlow' = "health"
    /\ uploads' = uploads
    /\ toast' = toast
    /\ lastOp' = NoOp
    /\ UNCHANGED <<storeVars, localStorage, pageVars, nextId>>
    /\ UNCHANGED histVars

\* handleResetAll's catch block
ResetFailed(step, outcome) ==
    LET message == ResetError(step, outcome)
    IN
    /\ resetFlow' = IF OffersFallback(message) THEN "fallback" ELSE "idle"
    /\ IF OffersFallback(message) THEN showConfirm(FallbackDialog)
       ELSE UNCHANGED confirmVars
    /\ uploads' = uploads
    /\ toast' = IF OffersFallback(message) THEN toast
                ELSE IF Includes(message, <<"timeout">>) THEN Some("Timeout Error")
                ELSE Some("Reset Error")
    /\ lastOp' = Op("resetFailure", [step |-> step, outcome |-> outcome])
    /\ UNCHANGED <<storeVars, localStorage, pageVars, nextId>>
    /\ UNCHANGED histVars

\* the health check settles
HealthSettle(outcome) ==
    /\ Stable
    /\ resetFlow = "health"
    /\ IF outcome = "ok"
       THEN /\ resetFlow' = "clear"
            /\ UNCHANGED confirmVars
            /\ uploads' = uploads
            /\ toast' = toast
            /\ lastOp' = NoOp
            /\ UNCHANGED <<storeVars, localStorage, pageVars, nextId>>
            /\ UNCHANGED histVars
       ELSE ResetFailed("health", outcome)

\* the clear call settles
ClearSettle(outcome) ==
    /\ Stable
    /\ resetFlow = "clear"
    /\ IF outcome = "ok"
       THEN /\ resetAllCall
            /\ resetFlow' = "idle"
            /\ UNCHANGED confirmVars
            /\ uploads' = uploads
            /\ toast' = Some("Reset Completed!")
       ELSE ResetFailed("clear", outcome)

\* the user answers "backend Connection Failed"
FallbackAnswer(tryFrontendOnly) ==
    /\ Stable
    /\ resetFlow = "fallback"
    /\ Shows("backend Connection Failed")
    /\ resolve
    /\ resetFlow' = "idle"
    /\ IF tryFrontendOnly
       THEN /\ resetAllCall
            /\ uploads' = uploads
            /\ toast' = Some("Frontend Reset Completed!")
       ELSE /\ toast' = toast
            /\ uploads' = uploads
            /\ lastOp' = NoOp
            /\ UNCHANGED <<storeVars, localStorage, pageVars, nextId>>
            /\ UNCHANGED histVars

forceRefreshFile(file) ==
    LET clearedFile == [file EXCEPT !.content = NoContent]
        r == SelectFileResult(clearedFile, isLoadingContent)
    IN
    /\ Stable
    /\ IF IsLegacyPath(file)
       THEN /\ previousFiles' = RemoveFile(previousFiles, file.id)
            /\ currentFiles' = RemoveFile(currentFiles, file.id)
            /\ selectedFile' = Some([file EXCEPT !.content = FileRemovedText])
            /\ history' = Recorded(LAMBDA h : [h EXCEPT !.removed = @ \cup {file.id}])
            /\ UNCHANGED <<isLoadingContent, extractions>>
       ELSE /\ previousFiles' = ReplaceFile(previousFiles, clearedFile)
            /\ currentFiles' = ReplaceFile(currentFiles, clearedFile)
            /\ selectedFile' = r.selected
            /\ isLoadingContent' = (isLoadingContent \/ r.start)
            /\ extractions' = IF r.start THEN Append(extractions, clearedFile)
                              ELSE extractions
            /\ history' = history
    /\ storeDirty' = storeDirty \cup {"previousFiles", "currentFiles"}
                       \cup ViewDirty(selectedFile', isLoadingContent')
    /\ UNCHANGED uiVars
    /\ lastOp' = NoOp
    /\ UNCHANGED <<isInitialSetupComplete, removals, localStorage, nextId>>
    /\ UNCHANGED pageVars

ListOf(list) == IF list = "current" THEN currentFiles ELSE previousFiles

\* removeCurrentFile / removePreviousFile up to the await of the remote call:
\* the record is looked up in the list and the remove-document request is sent
removeFileCall(list, fileId) ==
    /\ Stable
    /\ fileId \in Range(Ids(ListOf(list)))
    /\ removals' = removals \cup {[list |-> list, id |-> fileId]}
    /\ lastOp' = NoOp
    /\ UNCHANGED <<previousFiles, currentFiles, selectedFile, isInitialSetupComplete,
                   isLoadingContent, storeDirty, extractions, localStorage, nextId>>
    /\ UNCHANGED histVars
    /\ UNCHANGED pageVars

RemoveRequest(list, fileId) == removeFileCall(list, fileId) /\ UNCHANGED uiVars

\* handleRemoveCurrentFile / handleRemovePreviousFile up to the await: the
\* user asks to remove a listed document while no dialog covers the sidebar
RemoveAsk(list, fileId) ==
    /\ Stable
    /\ fileId \in Range(Ids(ListOf(list)))
    /\ confirmDialog = None
    /\ Len(awaiting) < MaxConfirms
    /\ showConfirm(RemoveDialog(list, fileId))
    /\ UNCHANGED <<resetFlow, toast, uploads>>
    /\ lastOp' = NoOp
    /\ UNCHANGED <<storeVars, localStorage, pageVars, nextId>>
    /\ UNCHANGED histVars

\* the user confirms "Remove Document?": the promise resolves with true and
\* the handler calls removeCurrentFile / removePreviousFile, which returns at
\* once when the record is no longer in its list
RemoveConfirmed ==
    LET dialog == awaiting[Get(confirmDialog)]
    IN
    /\ Stable
    /\ Shows("Remove Document?")
    /\ resolve
    /\ UNCHANGED <<resetFlow, toast, uploads>>
    /\ IF dialog.id \in Range(Ids(ListOf(dialog.list)))
       THEN removeFileCall(dialog.list, dialog.id)
       ELSE /\ lastOp' = NoOp
            /\ UNCHANGED <<storeVars, localStorage, pageVars, nextId>>
            /\ UNCHANGED histVars

\* what the remote document-index call can end in
RemoteOutcomes == {"ok", "non2xx", "rejected"}

\* a faulty variant: a rejected remote call ends the handler
ContinuesAfterMutant(remote) == remote # "rejected"

\* the try/catch around the remote call: does the handler go on to the local
\* removal after this outcome
ContinuesAfter(remote) == remote \in {"ok", "non2xx", "rejected"}

\* the rest of removeCurrentFile / removePreviousFile, after the remote call
RemoveSettle(call, remote) ==
    LET sel == IF IsSome(selectedFile) /\ Get(selectedFile).id = call.id
               THEN None ELSE selectedFile
        done == ContinuesAfter(remote)
    IN
    /\ Stable
    /\ call \in removals
    /\ removals' = removals \ {call}
    /\ IF done /\ call.list = "current"
       THEN currentFiles' = RemoveFile(currentFiles, call.id)
       ELSE currentFiles' = currentFiles
    /\ IF done /\ call.list = "previous"
       THEN previousFiles' = RemoveFile(previousFiles, call.id)
       ELSE previousFiles' = previousFiles
    /\ selectedFile' = IF done THEN sel ELSE selectedFile
    /\ storeDirty' = IF done
                     THEN storeDirty
                            \cup {IF call.list = "current" THEN "currentFiles"
                                  ELSE "previousFiles"}
                            \cup ViewDirty(sel, isLoadingContent)
                     ELSE storeDirty
    /\ history' = IF done
                  THEN Recorded(LAMBDA h : [h EXCEPT !.removed = @ \cup {call.id}])
                  ELSE history
    /\ UNCHANGED uiVars
    /\ lastOp' = Op("remove", [remote |-> remote,
                             selected |-> IsSome(selectedFile) /\ sel = None])
    /\ UNCHANGED <<isInitialSetupComplete, isLoadingContent, extractions,
                   localStorage, nextId>>
    /\ UNCHANGED pageVars

completeInitialSetup(files) ==
    /\ Stable
    /\ previousFiles' = IF Len(files) > 0 THEN files ELSE previousFiles
    /\ isInitialSetupComplete' = TRUE
    /\ storeDirty' = storeDirty
                       \cup (IF Len(files) > 0 THEN {"previousFiles"} ELSE {})
                       \cup (IF isInitialSetupComplete THEN {} ELSE {"isInitialSetupComplete"})
    /\ nextId' = nextId + Len(files)
    /\ history' = IF Len(files) > 0
                  THEN Recorded(LAMBDA h : [h EXCEPT !.previous = Ids(files)])
                  ELSE history
    /\ UNCHANGED uiVars
    /\ lastOp' = NoOp
    /\ UNCHANGED <<currentFiles, selectedFile, isLoadingContent, extractions,
                   removals, localStorage>>
    /\ UNCHANGED pageVars

\* a content that names a legacy path
DataMarkerText == <<"Extracted", "from", "data/", "archive">>

\* the mount effect's filterValidFiles
filterValidFiles(files) ==
    SelectSeq(files,
              LAMBDA file :
                  \/ StartsWith(file.savedPath, "uploaded")
                  \/ StartsWith(file.savedPath, "failed")
                  \/ /\ Truthy(file.content)
                     /\ ~Includes(file.content, <<"File", "not", "found">>)
                     /\ ~Includes(file.content, <<"data/">>))

\* a faulty variant: the mount effect does not restore the setup flag
LoadedSetupStateMutant(savedSetupState) == FALSE

\* the mount effect's `if (savedSetupState === 'true')`
LoadedSetupState(savedSetupState) == savedSetupState = Some("true")

\* a faulty variant: the save effects have run before the mount effect reads
MountReadMutant(ls, key) ==
    IF key = "isInitialSetupComplete" THEN Some("false") ELSE Some(<<>>)

\* localStorage.getItem in the mount effect, which is declared, and so runs,
\* before the save effects
MountRead(ls, key) == ls[key]

\* a page reload: the provider is constructed anew and its first effect pass
\* runs (the mount effect's reads, then the save effects with the initial
\* state); the second pass, with the loaded state, is left pending
Reload ==
    LET savedSetupState == MountRead(localStorage, "isInitialSetupComplete")
        savedPreviousFiles == MountRead(localStorage, "previousFiles")
        savedCurrentFiles == MountRead(localStorage, "currentFiles")
        Loaded(saved) == IF IsSome(saved) THEN filterValidFiles(Parse(Get(saved)))
                         ELSE <<>>
    IN
    /\ Stable
    /\ previousFiles' = Loaded(savedPreviousFiles)
    /\ currentFiles' = Loaded(savedCurrentFiles)
    /\ selectedFile' = None
    /\ isInitialSetupComplete' = LoadedSetupState(savedSetupState)
    /\ isLoadingContent' = FALSE
    /\ extractions' = <<>>
    /\ removals' = {}
    /\ localStorage' = [k \in DOMAIN localStorage |->
                           CASE k = "isInitialSetupComplete" -> Some(BoolToString(FALSE))
                             [] k \in {"previousFiles", "currentFiles"} ->
                                    Some(Stringify(<<>>))
                             [] OTHER -> localStorage[k]]
    /\ storeDirty' = (IF IsSome(savedPreviousFiles) THEN {"previousFiles"} ELSE {})
                       \cup (IF IsSome(savedCurrentFiles) THEN {"currentFiles"} ELSE {})
                       \cup (IF LoadedSetupState(savedSetupState)
                             THEN {"isInitialSetupComplete"} ELSE {})
    /\ page' = "index"
    /\ items' = <<>>
    /\ lastDocumentState' = <<>>
    /\ rendered' = None
    /\ itemsChanged' = FALSE
    /\ generation' = None
    /\ resetFlow' = "idle"
    /\ uploads' = <<>>
    /\ confirmDialog' = None
    /\ awaiting' = <<>>
    /\ toast' = None
    /\ lastOp' = Op("reload", [previous |-> savedPreviousFiles,
                               current |-> savedCurrentFiles,
                               setup |-> isInitialSetupComplete])
    /\ UNCHANGED nextId
    /\ UNCHANGED histVars

-----------------------------------------------------------------------------
(* Sidebar: onDropNew / onDropPrevious and uploadAndExtractFile *)

\* what uploadAndExtractFile resolves with: it catches every failure of the
\* upload request and returns a failed/ record
UploadOutcomes == {"ok", "failed"}

uploadAndExtractFile(id, outcome) ==
    IF outcome = "ok" THEN File(id, UploadedPath, ValidText, 2)
    ELSE File(id, FailedPath, UploadErrorText, 0)

\* a faulty variant: the requests of a batch are all sent at once
StartedAtDropMutant(n) == 1..n

\* `for (const file of acceptedFiles)`: the request of the first file is sent
\* when the handler is called
StartedAtDrop(n) == {1}

\* the loop's next iteration after the await of file k
StartedAfter(k, n) == IF k < n THEN {k + 1} ELSE {}

\* the files of the running batches whose upload has not settled
PendingUploads ==
    LET RECURSIVE Sum(_)
        Sum(i) == IF i = 0 THEN 0
                  ELSE (uploads[i].n - Cardinality(uploads[i].settled)) + Sum(i - 1)
    IN Sum(Len(uploads))

\* files are dropped on the "New Documents" (current) or the "Previous
\* Documents" zone: the handler starts
Drop(target, n) ==
    /\ Stable
    /\ Len(uploads) < MaxDrops
    /\ UNCHANGED confirmVars
    /\ uploads' = Append(uploads,
                         [target |-> target, n |-> n, started |-> StartedAtDrop(n),
                          settled |-> {}, assigned |-> [k \in 1..n |-> 0],
                          uploadedFiles |-> <<>>])
    /\ UNCHANGED <<resetFlow, toast>>
    /\ lastOp' = Op("drop", [target |-> target, n |-> n])
    /\ UNCHANGED <<storeVars, localStorage, pageVars, nextId>>
    /\ UNCHANGED histVars

\* the upload of file k of a batch settles and the handler runs on to its
\* next await or to its end
UploadSettle(i, k, outcome) ==
    LET b == uploads[i]
        file == uploadAndExtractFile(nextId, outcome)
        settled == b.settled \cup {k}
        done == settled = 1..b.n
        uploadedFiles == IF b.target = "previous" THEN Append(b.uploadedFiles, file)
                         ELSE b.uploadedFiles
        after == [b EXCEPT !.settled = settled,
                           !.started = @ \cup StartedAfter(k, b.n),
                           !.assigned[k] = nextId,
                           !.uploadedFiles = uploadedFiles]
    IN
    /\ Stable
    /\ k \in b.started \ b.settled
    /\ currentFiles' = IF b.target = "current" THEN AppendFile(currentFiles, file)
                       ELSE currentFiles
    /\ previousFiles' = IF b.target = "previous" /\ done /\ Len(uploadedFiles) > 0
                        THEN previousFiles \o uploadedFiles
                        ELSE previousFiles
    /\ storeDirty' = storeDirty
                       \cup (IF b.target = "current" THEN {"currentFiles"} ELSE {})
                       \cup (IF b.target = "previous" /\ done THEN {"previousFiles"} ELSE {})
    /\ nextId' = nextId + 1
    /\ UNCHANGED confirmVars
    /\ uploads' = IF done
                  THEN [j \in 1..(Len(uploads) - 1) |->
                           IF j < i THEN uploads[j] ELSE uploads[j + 1]]
                  ELSE [uploads EXCEPT ![i] = after]
    /\ UNCHANGED <<resetFlow, toast>>
    /\ lastOp' = Op("upload", [target |-> b.target, assigned |-> after.assigned,
                               done |-> done])
    /\ UNCHANGED <<selectedFile, isInitialSetupComplete, isLoadingContent,
                   extractions, removals, localStorage>>
    /\ UNCHANGED pageVars
    /\ UNCHANGED histVars

\* the store's passive effects: the three save effects, then auto-selection
StoreEffects ==
    LET saved == [k \in DOMAIN localStorage |->
                    IF k \in storeDirty
                    THEN CASE k = "isInitialSetupComplete" ->
                                  Some(BoolToString(isInitialSetupComplete))
                           [] k = "previousFiles" -> Some(Stringify(previousFiles))
                           [] OTHER -> Some(Stringify(currentFiles))
                    ELSE localStorage[k]]
        auto == Len(currentFiles) = 1 /\ Len(previousFiles) = 0 /\ selectedFile = None
        r == IF auto THEN SelectFileResult(currentFiles[1], isLoadingContent)
             ELSE [selected |-> selectedFile, start |-> FALSE]
    IN
    /\ storeDirty # {}
    /\ localStorage' = saved
    /\ selectedFile' = r.selected
    /\ isLoadingContent' = (isLoadingContent \/ r.start)
    /\ extractions' = IF r.start THEN Append(extractions, currentFiles[1])
                      ELSE extractions
    /\ storeDirty' = ViewDirty(r.selected, isLoadingContent \/ r.start)
    /\ UNCHANGED uiVars
    /\ lastOp' = [lastOp EXCEPT !.fx = TRUE]
    /\ UNCHANGED <<previousFiles, currentFiles, isInitialSetupComplete, removals,
                   nextId>>
    /\ UNCHANGED histVars
    /\ UNCHANGED pageVars

-----------------------------------------------------------------------------
(* Derived-result cache pages: SimilarIdeas, AIInsights, Podcast.  The     *)
(* three components share one structure; they differ in their storage keys *)
(* and in the number of documents a generation needs.                      *)

\* a faulty variant: the similarity page asks for one document only
MinFilesMutant(c) == 1

\* loadSimilarities returns early below 2 documents, loadInsights and
\* loadAIRecommendations at 0
MinFiles(c) == IF c = "documentSimilarities" THEN 2 ELSE 1

\* a result item, tagged with the document set it was generated for
ResultList(n, fp) == [i \in 1..n |-> fp]

\* what the AI collaborator's call can end in: a rejection, a response
\* without the list field, or a list of n results
GenerationOutcomes ==
    {[kind |-> "error", n |-> 0], [kind |-> "noList", n |-> 0]}
      \cup {[kind |-> "list", n |-> k] : k \in 0..MaxResults}

\* useState initialisers of the page component.  The three caches share no
\* key, so they are explored one at a time: a page is opened while no other
\* cache holds persisted results.
Mount(c) ==
    /\ Stable
    /\ page = "index"
    /\ \A d \in CacheNames \ {c} : localStorage[d] = None
    /\ page' = c
    /\ items' = IF IsSome(localStorage[c]) THEN Get(localStorage[c]) ELSE <<>>
    /\ lastDocumentState' = <<>>
    /\ rendered' = None
    /\ itemsChanged' = FALSE
    /\ generation' = None
    /\ UNCHANGED uiVars
    /\ lastOp' = Op("mount",
                    [cache |-> c,
                     stale |-> /\ IsSome(localStorage[c])
                               /\ localStorage[StateKey(c)] # Some(documentStateId)])
    /\ UNCHANGED storeVars
    /\ UNCHANGED <<localStorage, nextId>>
    /\ UNCHANGED histVars

\* navigation away: the component's state is dropped, and a call it has in
\* flight settles into the unmounted instance
Unmount ==
    /\ Stable
    /\ page # "index"
    /\ page' = "index"
    /\ items' = <<>>
    /\ lastDocumentState' = <<>>
    /\ rendered' = None
    /\ itemsChanged' = FALSE
    /\ generation' = None
    /\ UNCHANGED uiVars
    /\ lastOp' = NoOp
    /\ UNCHANGED storeVars
    /\ UNCHANGED <<localStorage, nextId>>
    /\ UNCHANGED histVars

\* loadSimilarities / loadInsights / loadAIRecommendations up to the await
Generate ==
    /\ Stable
    /\ page # "index"
    /\ generation = None
    /\ IF totalFiles < MinFiles(page)
       THEN /\ items' = <<>>
            /\ itemsChanged' = TRUE
            /\ generation' = None
       ELSE /\ generation' = Some([fp |-> documentStateId, refresh |-> items # <<>>])
            /\ UNCHANGED <<items, itemsChanged>>
    /\ UNCHANGED uiVars
    /\ lastOp' = Op("generate", [total |-> totalFiles])
    /\ UNCHANGED storeVars
    /\ UNCHANGED <<page, lastDocumentState, rendered, localStorage, nextId>>
    /\ UNCHANGED histVars

\* a faulty variant: a rejected call replaces the result set
SettledItemsMutant(outcome, results) ==
    IF outcome.kind = "noList" THEN items ELSE results

\* the result set after the collaborator's call: replaced only by a response
\* that carries a list
SettledItems(outcome, results) ==
    IF outcome.kind = "list" THEN results ELSE items

\* showSuccess / showError of the load function
GenerationToast(outcome, isRefresh) ==
    CASE outcome.kind = "error" -> Some("Failed to generate")
      [] outcome.kind = "list"  -> Some(IF isRefresh THEN "Refreshed" ELSE "Generated")
      [] OTHER                  -> toast

\* the rest of the load function, after the collaborator's call
GenerationSettle(outcome) ==
    LET request == Get(generation)
        results == ResultList(outcome.n, request.fp)
    IN
    /\ Stable
    /\ page # "index"
    /\ IsSome(generation)
    /\ generation' = None
    /\ items' = SettledItems(outcome, results)
    /\ itemsChanged' = (itemsChanged \/ outcome.kind = "list")
    /\ UNCHANGED confirmVars
    /\ uploads' = uploads
    /\ toast' = GenerationToast(outcome, request.refresh)
    /\ resetFlow' = resetFlow
    /\ lastOp' = Op("generation", [kind |-> outcome.kind, results |-> results])
    /\ UNCHANGED storeVars
    /\ UNCHANGED <<page, lastDocumentState, rendered, localStorage, nextId>>
    /\ UNCHANGED histVars

\* first effect: save the result set with the live fingerprint
SaveEffect(ls, c, run) ==
    IF run /\ Len(items) > 0
    THEN [ls EXCEPT ![c] = Some(items), ![StateKey(c)] = Some(documentStateId)]
    ELSE ls

\* second effect: does it clear the result set
ClearEffectFires(run) ==
    /\ run
    /\ \/ totalFiles = 0
       \/ lastDocumentState # <<>> /\ documentStateId # lastDocumentState

\* third effect: does it look into storage
LoadEffectReads(run) == run /\ totalFiles > 0 /\ Len(items) = 0

\* one pass of the page's three storage effects, in the order they are declared
PageEffects ==
    LET c == page
        fp == documentStateId
        first == rendered = None
        run1 == first \/ itemsChanged \/ Get(rendered).fp # fp
        run2 == first \/ Get(rendered).fp # fp
                      \/ Get(rendered).last # lastDocumentState
        run3 == first \/ Get(rendered).fp # fp \/ Get(rendered).len # Len(items)
        ls1 == SaveEffect(localStorage, c, run1)
        clear == ClearEffectFires(run2)
        ls2 == IF clear THEN RemoveItems(ls1, {c, StateKey(c)}) ELSE ls1
        reads == LoadEffectReads(run3)
        load == reads /\ IsSome(ls2[c]) /\ ls2[StateKey(c)] = Some(fp)
        stale == reads /\ IsSome(ls2[c]) /\ ls2[StateKey(c)] # Some(fp)
        ls3 == IF stale THEN RemoveItems(ls2, {c, StateKey(c)}) ELSE ls2
    IN
    /\ PagePending
    /\ localStorage' = ls3
    /\ items' = IF load THEN Get(ls2[c]) ELSE IF clear THEN <<>> ELSE items
    /\ itemsChanged' = (load \/ clear)
    /\ lastDocumentState' = IF run2 THEN fp ELSE lastDocumentState
    /\ rendered' = Some([fp |-> fp, last |-> lastDocumentState, len |-> Len(items)])
    /\ UNCHANGED uiVars
    /\ lastOp' = [lastOp EXCEPT !.fx = TRUE]
    /\ UNCHANGED storeVars
    /\ UNCHANGED <<page, generation, nextId>>
    /\ UNCHANGED histVars

\* useState initialiser of a page's result set: the persisted results, if any
FirstRenderItems(ls, c) == IF IsSome(ls[c]) THEN Get(ls[c]) ELSE <<>>

\* storage after the first pass of a page's three effects when the page is
\* rendered together with a newly constructed provider, whose lists are still
\* the empty initial state: the save effect writes a non-empty result set
\* with the fingerprint of no documents, the clear effect finds totalFiles = 0
\* and removes both keys, the load effect does nothing
FirstPassStorage(ls, c) ==
    LET first == FirstRenderItems(ls, c)
        saved == IF Len(first) > 0
                 THEN [ls EXCEPT ![c] = Some(first),
                                 ![StateKey(c)] = Some(DocumentStateId(<<>>, <<>>))]
                 ELSE ls
    IN RemoveItems(saved, {c, StateKey(c)})

\* a page reload at the address of cache page c: provider and page are
\* constructed in one render and their first effect pass runs, the page's
\* effects (the child's) before the provider's mount and save effects; the
\* second pass of both, with the loaded lists, is left pending
ReloadOn(c) ==
    LET first == FirstRenderItems(localStorage, c)
        ls == FirstPassStorage(localStorage, c)
        savedSetupState == MountRead(ls, "isInitialSetupComplete")
        savedPreviousFiles == MountRead(ls, "previousFiles")
        savedCurrentFiles == MountRead(ls, "currentFiles")
        Loaded(saved) == IF IsSome(saved) THEN filterValidFiles(Parse(Get(saved)))
                         ELSE <<>>
    IN
    /\ Stable
    /\ \A d \in CacheNames \ {c} : localStorage[d] = None
    /\ previousFiles' = Loaded(savedPreviousFiles)
    /\ currentFiles' = Loaded(savedCurrentFiles)
    /\ selectedFile' = None
    /\ isInitialSetupComplete' = LoadedSetupState(savedSetupState)
    /\ isLoadingContent' = FALSE
    /\ extractions' = <<>>
    /\ removals' = {}
    /\ localStorage' = [k \in DOMAIN ls |->
                           CASE k = "isInitialSetupComplete" -> Some(BoolToString(FALSE))
                             [] k \in {"previousFiles", "currentFiles"} ->
                                    Some(Stringify(<<>>))
                             [] OTHER -> ls[k]]
    /\ storeDirty' = (IF IsSome(savedPreviousFiles) THEN {"previousFiles"} ELSE {})
                       \cup (IF IsSome(savedCurrentFiles) THEN {"currentFiles"} ELSE {})
                       \cup (IF LoadedSetupState(savedSetupState)
                             THEN {"isInitialSetupComplete"} ELSE {})
    /\ page' = c
    /\ items' = <<>>
    /\ lastDocumentState' = <<>>
    /\ rendered' = Some([fp |-> DocumentStateId(<<>>, <<>>), last |-> <<>>,
                         len |-> Len(first)])
    /\ itemsChanged' = TRUE
    /\ generation' = None
    /\ resetFlow' = "idle"
    /\ uploads' = <<>>
    /\ confirmDialog' = None
    /\ awaiting' = <<>>
    /\ toast' = None
    /\ lastOp' = Op("reloadOn",
                    [cache |-> c,
                     results |-> localStorage[c],
                     matches |-> /\ IsSome(localStorage[c])
                                 /\ localStorage[StateKey(c)] = Some(documentStateId)
                                 /\ DocumentStateId(Loaded(savedCurrentFiles),
                                                    Loaded(savedPreviousFiles))
                                        = documentStateId])
    /\ UNCHANGED nextId
    /\ UNCHANGED histVars

-----------------------------------------------------------------------------
(* Initial state: a first visit, after the store's mount effects *)

Init ==
    /\ previousFiles = <<>>
    /\ currentFiles = <<>>
    /\ selectedFile = None
    /\ isInitialSetupComplete = FALSE
    /\ isLoadingContent = FALSE
    /\ storeDirty = {}
    /\ extractions = <<>>
    /\ removals = {}
    /\ localStorage = [k \in StorageKeys |->
                         CASE k = "isInitialSetupComplete" -> Some("false")
                           [] k \in {"previousFiles", "currentFiles"} -> Some(<<>>)
                           [] OTHER -> None]
    /\ page = "index"
    /\ items = <<>>
    /\ lastDocumentState = <<>>
    /\ rendered = None
    /\ itemsChanged = FALSE
    /\ generation = None
    /\ nextId = 1
    /\ history = None
    /\ resetFlow = "idle"
    /\ toast = None
    /\ uploads = <<>>
    /\ confirmDialog = None
    /\ awaiting = <<>>
    /\ lastOp = NoOp

\* an upload that succeeded: uploaded/ path, content and page count set
UploadedFile(id) == File(id, UploadedPath, ValidText, 2)

\* the records the sidebar can hand to the store
NewFiles(id) ==
    { UploadedFile(id),
      File(id, FailedPath, UploadErrorText, 0),
      File(id, LibraryPath, NoContent, 0),
      File(id, LegacyPath, NoContent, 0) }

Batch(n) == [i \in 1..n |-> UploadedFile(nextId + i - 1)]

AllFiles == Range(currentFiles) \cup Range(previousFiles)

-----------------------------------------------------------------------------
(* Specifications *)

\* the derived-result caches over a changing document set
NextCache ==
    \/ nextId <= MaxId /\ addCurrentFile(UploadedFile(nextId))
    \/ \E l \in {"current", "previous"} : \E id \in 1..MaxId : RemoveRequest(l, id)
    \/ \E call \in removals : RemoveSettle(call, "ok")
    \/ resetAll
    \/ StoreEffects
    \/ \E c \in CacheNames : Mount(c)
    \/ Unmount
    \/ Generate
    \/ \E outcome \in GenerationOutcomes : GenerationSettle(outcome)
    \/ PageEffects

\* the state the initial setup leaves: one library document, setup complete
InitCache ==
    /\ previousFiles = <<UploadedFile(1)>>
    /\ currentFiles = <<>>
    /\ selectedFile = None
    /\ isInitialSetupComplete = TRUE
    /\ isLoadingContent = FALSE
    /\ storeDirty = {}
    /\ extractions = <<>>
    /\ removals = {}
    /\ localStorage = [k \in StorageKeys |->
                         CASE k = "isInitialSetupComplete" -> Some("true")
                           [] k = "previousFiles" -> Some(<<UploadedFile(1)>>)
                           [] k = "currentFiles" -> Some(<<>>)
                           [] OTHER -> None]
    /\ page = "index"
    /\ items = <<>>
    /\ lastDocumentState = <<>>
    /\ rendered = None
    /\ itemsChanged = FALSE
    /\ generation = None
    /\ nextId = 2
    /\ history = None
    /\ resetFlow = "idle"
    /\ toast = None
    /\ uploads = <<>>
    /\ confirmDialog = None
    /\ awaiting = <<>>
    /\ lastOp = NoOp

SpecCache == InitCache /\ [][NextCache]_vars

\* the cache pages across page reloads, on the index page and on a cache page
NextReloadOn ==
    \/ nextId <= MaxId /\ addCurrentFile(UploadedFile(nextId))
    \/ \E l \in {"current", "previous"} : \E id \in 1..MaxId : RemoveRequest(l, id)
    \/ \E call \in removals : RemoveSettle(call, "ok")
    \/ StoreEffects
    \/ \E c \in CacheNames : Mount(c)
    \/ Unmount
    \/ Generate
    \/ \E outcome \in GenerationOutcomes : GenerationSettle(outcome)
    \/ PageEffects
    \/ Reload
    \/ \E c \in CacheNames : ReloadOn(c)

SpecReloadOn == InitCache /\ [][NextReloadOn]_vars

\* the caches and the store together, with documents whose content is loaded
\* on selection
NextReset ==
    \/ nextId <= MaxStoreId /\ addCurrentFile(UploadedFile(nextId))
    \/ nextId <= MaxStoreId /\ addCurrentFile(File(nextId, LibraryPath, NoContent, 0))
    \/ \E i \in 1..Len(extractions) : ExtractionSettle(i, "ok")
    \/ \E l \in {"current", "previous"} : \E id \in 1..MaxStoreId : RemoveRequest(l, id)
    \/ \E call \in removals : RemoveSettle(call, "ok")
    \/ resetAll
    \/ StoreEffects
    \/ \E c \in CacheNames : Mount(c)
    \/ Unmount
    \/ Generate
    \/ \E outcome \in GenerationOutcomes : GenerationSettle(outcome)
    \/ PageEffects

SpecReset == InitCache /\ [][NextReset]_vars

\* the document store: records, selection and content extraction
NextStore ==
    \/ nextId <= MaxStoreId /\ \E f \in NewFiles(nextId) : addCurrentFile(f)
    \/ \E n \in 1..MaxBatch : nextId + n - 1 <= MaxStoreId /\ addPreviousFiles(Batch(n))
    \/ \E n \in 0..MaxBatch : nextId + n - 1 <= MaxStoreId /\ completeInitialSetup(Batch(n))
    \/ \E f \in AllFiles : selectFile(f)
    \/ \E i \in 1..Len(extractions) : \E outcome \in ExtractionOutcomes :
           ExtractionSettle(i, outcome)
    \/ \E f \in AllFiles : forceRefreshFile(f)
    \/ \E l \in {"current", "previous"} : \E id \in 1..MaxId : RemoveRequest(l, id)
    \/ \E call \in removals : RemoveSettle(call, "ok")
    \/ resetAll
    \/ StoreEffects

SpecStore == Init /\ [][NextStore]_vars

\* selection and extraction alone, over path-based and uploaded records
NextExtract ==
    \/ nextId <= MaxExtractId /\ addCurrentFile(File(nextId, LibraryPath, NoContent, 0))
    \/ nextId <= MaxExtractId /\ addCurrentFile(UploadedFile(nextId))
    \/ \E f \in AllFiles : selectFile(f)
    \/ \E i \in 1..Len(extractions) : \E outcome \in ExtractionOutcomes :
           ExtractionSettle(i, outcome)
    \/ \E f \in AllFiles : forceRefreshFile(f)
    \/ resetAll
    \/ StoreEffects

\* repeated selection of records of every kind, with content of every kind
NextSelect ==
    \/ nextId <= MaxStoreId /\ \E f \in NewFiles(nextId) : addCurrentFile(f)
    \/ \E f \in AllFiles : Len(extractions) + 2 <= MaxInFlight /\ selectFileTwice(f)
    \/ \E i \in 1..Len(extractions) : \E outcome \in {"ok", "timeout", "failedToFetch"} :
           ExtractionSettle(i, outcome)
    \/ StoreEffects

SpecSelect == Init /\ [][NextSelect]_vars

\* the records storage can hold at a reload
StoredFiles(id) ==
    NewFiles(id)
      \cup { File(id, UploadedPath, NoContent, 0),
             File(id, LibraryPath, ValidText, 2),
             File(id, LibraryPath, DataMarkerText, 1),
             File(id, LibraryPath, extractPDFContentFromPath(FileName, "http404").text, 1),
             File(id, LibraryPath, extractPDFContentFromPath(FileName, "timeout").text, 1),
             File(id, LegacyPath, ValidText, 2) }

\* the store across page reloads
NextReload ==
    \/ nextId <= MaxStoreId /\ \E f \in StoredFiles(nextId) : addCurrentFile(f)
    \/ nextId <= MaxStoreId /\ \E f \in StoredFiles(nextId) : addPreviousFiles(<<f>>)
    \/ completeInitialSetup(<<>>)
    \/ StoreEffects
    \/ Reload

SpecReload == Init /\ [][NextReload]_vars

\* the store's operations and page reloads
NextSetup ==
    \/ nextId <= MaxExtractId /\ \E f \in NewFiles(nextId) : addCurrentFile(f)
    \/ nextId <= MaxExtractId /\ \E f \in NewFiles(nextId) : addPreviousFiles(<<f>>)
    \/ \E n \in 0..MaxBatch : nextId + n - 1 <= MaxExtractId /\ completeInitialSetup(Batch(n))
    \/ \E f \in AllFiles : selectFile(f)
    \/ \E i \in 1..Len(extractions) : \E outcome \in {"ok", "timeout"} :
           ExtractionSettle(i, outcome)
    \/ \E f \in AllFiles : forceRefreshFile(f)
    \/ \E l \in {"current", "previous"} : \E id \in 1..MaxExtractId : RemoveRequest(l, id)
    \/ \E call \in removals : RemoveSettle(call, "ok")
    \/ resetAll
    \/ StoreEffects
    \/ Reload

SpecSetup == Init /\ [][NextSetup]_vars

\* drops on both zones, with removals and resets while uploads run
NextUpload ==
    \/ \E target \in {"current", "previous"} : \E n \in 1..MaxBatch :
           /\ nextId + PendingUploads + n - 1 <= MaxStoreId
           /\ Drop(target, n)
    \/ \E i \in 1..Len(uploads) : \E k \in 1..MaxBatch : \E outcome \in UploadOutcomes :
           k <= uploads[i].n /\ UploadSettle(i, k, outcome)
    \/ \E l \in {"current", "previous"} : \E id \in 1..MaxStoreId : RemoveRequest(l, id)
    \/ \E call \in removals : RemoveSettle(call, "ok")
    \/ resetAll
    \/ StoreEffects

SpecUpload == Init /\ [][NextUpload]_vars

\* the orders in which the ids of a set can stand
RECURSIVE Arrangements(_)
Arrangements(ids) ==
    IF ids = {} THEN {<<>>}
    ELSE UNION {{<<id>> \o s : s \in Arrangements(ids \ {id})} : id \in ids}

\* the store as a reload leaves it, with any set of uploaded documents in any
\* order in the two lists
InitFingerprint ==
    /\ \E ids \in SUBSET (1..MaxId) : \E s \in Arrangements(ids) : \E cut \in 0..Len(s) :
           /\ currentFiles = [i \in 1..cut |-> UploadedFile(s[i])]
           /\ previousFiles = [i \in 1..(Len(s) - cut) |-> UploadedFile(s[cut + i])]
    /\ selectedFile = None
    /\ isInitialSetupComplete = TRUE
    /\ isLoadingContent = FALSE
    /\ storeDirty = {"previousFiles", "currentFiles", "isInitialSetupComplete"}
    /\ extractions = <<>>
    /\ removals = {}
    /\ localStorage = [k \in StorageKeys |->
                         CASE k = "isInitialSetupComplete" -> Some("false")
                           [] k \in {"previousFiles", "currentFiles"} -> Some(<<>>)
                           [] OTHER -> None]
    /\ page = "index"
    /\ items = <<>>
    /\ lastDocumentState = <<>>
    /\ rendered = None
    /\ itemsChanged = FALSE
    /\ generation = None
    /\ nextId = MaxId + 1
    /\ history = None
    /\ resetFlow = "idle"
    /\ toast = None
    /\ uploads = <<>>
    /\ confirmDialog = None
    /\ awaiting = <<>>
    /\ lastOp = NoOp

\* removals
NextFingerprint ==
    \/ \E l \in {"current", "previous"} : \E id \in 1..MaxId : RemoveRequest(l, id)
    \/ \E call \in removals : RemoveSettle(call, "ok")
    \/ StoreEffects

SpecFingerprint == InitFingerprint /\ [][NextFingerprint]_vars

\* resetAll while uploads and generations are awaited
NextResetRace ==
    \/ \E n \in 1..MaxBatch :
           /\ nextId + PendingUploads + n - 1 <= MaxStoreId
           /\ Drop("current", n)
    \/ \E i \in 1..Len(uploads) : \E k \in 1..MaxBatch :
           k <= uploads[i].n /\ UploadSettle(i, k, "ok")
    \/ resetAll
    \/ StoreEffects
    \/ \E c \in CacheNames : Mount(c)
    \/ Unmount
    \/ Generate
    \/ \E outcome \in GenerationOutcomes : GenerationSettle(outcome)
    \/ PageEffects

SpecResetRace == InitCache /\ [][NextResetRace]_vars

\* the sidebar's full reset over a store of uploaded records
NextResetFlow ==
    \/ nextId <= MaxStoreId /\ addCurrentFile(UploadedFile(nextId))
    \/ nextId <= MaxStoreId /\ addPreviousFiles(<<UploadedFile(nextId)>>)
    \/ completeInitialSetup(<<>>)
    \/ ResetAsk
    \/ handleResetAll
    \/ \E outcome \in RequestOutcomes : HealthSettle(outcome)
    \/ \E outcome \in RequestOutcomes : ClearSettle(outcome)
    \/ \E tryFrontendOnly \in BOOLEAN : FallbackAnswer(tryFrontendOnly)
    \/ StoreEffects

SpecResetFlow == Init /\ [][NextResetFlow]_vars

\* the sidebar's handlers that ask for a confirmation, and the dialog
NextConfirm ==
    \/ nextId <= MaxStoreId /\ addCurrentFile(UploadedFile(nextId))
    \/ \E l \in {"current", "previous"} : \E id \in 1..MaxStoreId : RemoveAsk(l, id)
    \/ RemoveConfirmed
    \/ \E call \in removals : RemoveSettle(call, "ok")
    \/ ResetAsk
    \/ handleResetAll
    \/ \E outcome \in RequestOutcomes : HealthSettle(outcome)
    \/ \E outcome \in RequestOutcomes : ClearSettle(outcome)
    \/ \E tryFrontendOnly \in BOOLEAN : FallbackAnswer(tryFrontendOnly)
    \/ ConfirmCancel
    \/ hideConfirm
    \/ StoreEffects

SpecConfirm == InitCache /\ [][NextConfirm]_vars

\* an awaited extraction settles (the loader races the request against a
\* 30 s timer), and pending effects run
SpecExtractFair ==
    /\ Init
    /\ [][NextExtract]_vars
    /\ WF_vars(StoreEffects)
    /\ SF_vars(\E i \in 1..Len(extractions) : \E outcome \in ExtractionOutcomes :
                   ExtractionSettle(i, outcome))

\* the two lists under adds and removes, with the history recorded
NextLists ==
    \/ nextId <= MaxId /\ \E f \in NewFiles(nextId) : addCurrentFile(f)
    \/ \E n \in 1..MaxBatch : nextId + n - 1 <= MaxId /\ addPreviousFiles(Batch(n))
    \/ \E l \in {"current", "previous"} : \E id \in 1..MaxId : RemoveRequest(l, id)
    \/ \E call \in removals : \E remote \in RemoteOutcomes : RemoveSettle(call, remote)
    \/ StoreEffects

InitLists ==
    /\ previousFiles = <<>>
    /\ currentFiles = <<>>
    /\ selectedFile = None
    /\ isInitialSetupComplete = FALSE
    /\ isLoadingContent = FALSE
    /\ storeDirty = {}
    /\ extractions = <<>>
    /\ removals = {}
    /\ localStorage = [k \in StorageKeys |->
                         CASE k = "isInitialSetupComplete" -> Some("false")
                           [] k \in {"previousFiles", "currentFiles"} -> Some(<<>>)
                           [] OTHER -> None]
    /\ page = "index"
    /\ items = <<>>
    /\ lastDocumentState = <<>>
    /\ rendered = None
    /\ itemsChanged = FALSE
    /\ generation = None
    /\ nextId = 1
    /\ history = Some(EmptyHistory)
    /\ resetFlow = "idle"
    /\ toast = None
    /\ uploads = <<>>
    /\ confirmDialog = None
    /\ awaiting = <<>>
    /\ lastOp = NoOp

SpecLists == InitLists /\ [][NextLists]_vars

-----------------------------------------------------------------------------
(* Derived-result cache claims *)

\* the result set a cache page shows: the list is rendered when enough
\* documents exist and no generation is running
Shown(c) ==
    IF page = c /\ totalFiles >= MinFiles(c) /\ generation = None THEN items ELSE <<>>

GeneratedFor(results, fp) == \A i \in 1..Len(results) : results[i] = fp

\* C1: for each cache, in every state where no effect is pending, a non-empty
\* result set that the page shows, or that storage holds for it, was
\* generated for the document set whose fingerprint is the live fingerprint.
\* (Read in the code's favour: the persisted set is looked at only while its
\* page is mounted, after the page had the chance to discard it.)
C1_ResultsAreForLiveDocuments ==
    Stable =>
        \A c \in CacheNames :
            page = c =>
                /\ GeneratedFor(Shown(c), documentStateId)
                /\ IsSome(localStorage[c]) =>
                       GeneratedFor(Get(localStorage[c]), documentStateId)

\* C2: a page that mounts over a persisted result set whose persisted
\* fingerprint differs from the live one never renders that set, not even in
\* its initial render, and once its effects have run the set and its
\* fingerprint are gone from storage.
C2_StaleSetNeverRendered ==
    (lastOp.op = "mount" /\ lastOp.arg.stale) =>
        /\ items = <<>>
        /\ Stable => /\ localStorage[page] = None
                     /\ localStorage[StateKey(page)] = None

\* C9: while a page is mounted, an effect pass that sees a fingerprint other
\* than the one the previous pass saw (a drop to no documents included) ends
\* with the in-memory result set empty and both storage keys removed.
C9_FingerprintChangeClears ==
    [][ (page # "index" /\ page' = page /\ IsSome(rendered) /\ IsSome(rendered')
           /\ Get(rendered').fp # Get(rendered).fp)
        => /\ items' = <<>>
           /\ localStorage'[page] = None
           /\ localStorage'[StateKey(page)] = None ]_vars

\* C10: after a successful generate or refresh, once the effects have run,
\* the page holds the returned results, and storage holds them stamped with
\* the live fingerprint; a returned empty list leaves no older set behind.
C10_SuccessReplacesResults ==
    (lastOp.op = "generation" /\ lastOp.arg.kind = "list" /\ Stable /\ page # "index") =>
        /\ items = lastOp.arg.results
        /\ IF lastOp.arg.results # <<>>
           THEN /\ localStorage[page] = Some(lastOp.arg.results)
                /\ localStorage[StateKey(page)] = Some(documentStateId)
           ELSE localStorage[page] = None

-----------------------------------------------------------------------------
(* Document store claims *)

\* C3: at most one extraction started by selectFile is in flight at any time,
\* under every interleaving of the store's operations, resetAll included.
C3_OneExtractionInFlight == Len(extractions) <= 1

\* C4: each list holds exactly the records that were added to it and not
\* removed, once each, in the order they were added.
C4_ListsMatchHistory ==
    IsSome(history) =>
        LET h == Get(history)
            Kept(ids) == SelectSeq(ids, LAMBDA i : i \notin h.removed)
        IN /\ Ids(currentFiles) = Kept(h.current)
           /\ Ids(previousFiles) = Kept(h.previous)

\* a remove is awaiting its remote call while records were added to both
\* lists and another record is already removed
C4_Witness ==
    /\ IsSome(history)
    /\ Get(history).removed # {}
    /\ removals # {}
    /\ Len(currentFiles) >= 1
    /\ Len(previousFiles) >= 1

\* C5: once resetAll and the effects it leaves pending have run, both lists
\* are empty, nothing is selected, the setup and loading flags are false and
\* none of the six derived keys is in storage.
C5_ResetLeavesNothing ==
    (lastOp.op = "resetAll" /\ Stable) =>
        /\ currentFiles = <<>>
        /\ previousFiles = <<>>
        /\ selectedFile = None
        /\ ~isInitialSetupComplete
        /\ ~isLoadingContent
        /\ \A k \in DerivedKeys : localStorage[k] = None

\* resetAll ran, with a cache page mounted, over persisted results, a
\* selection and a running extraction, and the effects have run since
C5_Witness ==
    /\ lastOp.op = "resetAll"
    /\ lastOp.fx
    /\ Stable
    /\ page # "index"
    /\ lastOp.arg.derived
    /\ lastOp.arg.selected
    /\ lastOp.arg.loading

\* C6: when a remove whose id is in its list comes back from the remote call,
\* whatever that call ended in, the record is gone from the list, and
\* selectedFile is null if it was that record and unchanged otherwise.
C6_RemoveAlwaysCompletes ==
    [][ \A call \in removals :
            call \notin removals' =>
                /\ call.id \notin Range(Ids(IF call.list = "current"
                                            THEN currentFiles' ELSE previousFiles'))
                /\ selectedFile' =
                       IF IsSome(selectedFile) /\ Get(selectedFile).id = call.id
                       THEN None ELSE selectedFile ]_vars

\* a remove of the selected record completed after its remote call rejected
C6_Witness ==
    /\ lastOp.op = "remove"
    /\ lastOp.arg.remote = "rejected"
    /\ lastOp.arg.selected
    /\ selectedFile = None

\* C7: whatever way an extraction fails, the text the loader resolves with is
\* one selectFile recognises as an error, so that a later selectFile of the
\* record extracts again.
C7_FailureTextIsSentinel ==
    \A f \in AllFiles :
        \A outcome \in FailureOutcomes :
            f.content = extractPDFContentFromPath(FileName, outcome).text
                => IsErrorContent(f.content)

\* C8: forceRefreshFile on a record without a legacy path clears its content
\* in the lists and, in the same call, starts a new extraction for it.
C8_ForceRefreshExtracts ==
    [][ \A f \in AllFiles :
            (forceRefreshFile(f) /\ ~IsLegacyPath(f)) =>
                /\ \A g \in Range(currentFiles') \cup Range(previousFiles') :
                       g.id = f.id => g.content = NoContent
                /\ Len(extractions') = Len(extractions) + 1
                /\ extractions'[Len(extractions')].id = f.id ]_vars

\* C11: the loading flag is true whenever an extraction is started, is false
\* after every step in which an extraction settles, whatever it settled
\* with, and never stays true forever.
C11_LoadingFlagIsReleased ==
    /\ [][ Len(extractions') > Len(extractions) => isLoadingContent' ]_vars
    /\ [][ Len(extractions') < Len(extractions) => ~isLoadingContent' ]_vars
    /\ [](isLoadingContent => Len(extractions) >= 1)
    /\ (isLoadingContent ~> ~isLoadingContent)

\* an extraction settled with a failure and the flag is false again
C11_Witness ==
    /\ lastOp.op = "extraction"
    /\ lastOp.arg.outcome \in FailureOutcomes
    /\ ~isLoadingContent
    /\ IsSome(selectedFile)
    /\ IsErrorContent(Get(selectedFile).content)

C13_SingleRecordIsSelected ==
    (Stable /\ Len(currentFiles) = 1 /\ Len(previousFiles) = 0)
        => IsSome(selectedFile)

\* C14: a record in either list keeps its id and savedPath, and no step
\* changes or clears its content while its pages and lastRead stay as they
\* were.
C14_ContentPagesLastReadAsUnit ==
    [][ \A f \in AllFiles :
            \A g \in Range(currentFiles') \cup Range(previousFiles') :
                g.id = f.id =>
                    /\ g.savedPath = f.savedPath
                    /\ g.content # f.content =>
                           (g.pages # f.pages \/ g.lastRead # f.lastRead) ]_vars

\* C15: after a reload, once the mount effects have run, each list is the
\* list that was persisted, in its order, without the records that have
\* neither the uploaded/ nor the failed/ prefix and whose content is missing
\* or holds a "File not found" or data/ marker; isInitialSetupComplete is
\* what it was; and storage holds those lists again.
C15_ReloadRestoresStore ==
    (lastOp.op = "reload" /\ Stable) =>
        LET Dropped(p) ==
                /\ p.savedPath[1] \notin {"uploaded", "failed"}
                /\ \/ "content" \notin DOMAIN p
                   \/ \E i \in 1..Len(p.content) :
                          \/ p.content[i] = "data/"
                          \/ /\ i + 2 <= Len(p.content)
                             /\ SubSeq(p.content, i, i + 2) = <<"File", "not", "found">>
            Expected(saved) == Ids(SelectSeq(Get(saved), LAMBDA p : ~Dropped(p)))
        IN /\ Ids(previousFiles) = Expected(lastOp.arg.previous)
           /\ Ids(currentFiles) = Expected(lastOp.arg.current)
           /\ \A f \in AllFiles :
                  \E p \in Range(Get(lastOp.arg.previous)) \cup Range(Get(lastOp.arg.current)) :
                      /\ p.id = f.id /\ p.savedPath = f.savedPath /\ p.pages = f.pages
                      /\ IF "content" \in DOMAIN p THEN f.content = p.content
                         ELSE f.content = NoContent
           /\ isInitialSetupComplete = lastOp.arg.setup
           /\ localStorage["previousFiles"] = Some(Stringify(previousFiles))
           /\ localStorage["currentFiles"] = Some(Stringify(currentFiles))
           /\ localStorage["isInitialSetupComplete"] =
                  Some(BoolToString(isInitialSetupComplete))

\* a reload after the setup was completed kept one record and dropped another
C15_Witness ==
    /\ lastOp.op = "reload"
    /\ Stable
    /\ isInitialSetupComplete
    /\ totalFiles = 1
    /\ Len(Get(lastOp.arg.previous)) + Len(Get(lastOp.arg.current)) = 2

\* C16: in the full reset, every failure of the health check or of the clear
\* call (network unreachable, non-2xx response, timeout) is followed by the
\* offer of the frontend-only reset.
C16_FailureOffersFallback ==
    lastOp.op = "resetFailure" => resetFlow = "fallback"

\* C17: when an extraction ends by the 30 s timer, the loader resolves and the
\* record it ran for holds a content that contains "timeout" and pages = 1,
\* and the sidebar offers the retry control on it.
C17_TimeoutIsRetryable ==
    (lastOp.op = "extraction" /\ lastOp.arg.outcome = "timeout") =>
        /\ IsSome(selectedFile)
        /\ \A f \in AllFiles \cup {Get(selectedFile)} :
               f.id = Get(selectedFile).id =>
                   /\ Includes(f.content, <<"timeout">>)
                   /\ f.pages = 1
                   /\ RetryOffered(f)

\* an extraction timed out for a record that is in a list
C17_Witness ==
    /\ lastOp.op = "extraction"
    /\ lastOp.arg.outcome = "timeout"
    /\ IsSome(selectedFile)
    /\ \E f \in AllFiles : f.id = Get(selectedFile).id /\ RetryOffered(f)

\* C18: selectFile on a record with an uploaded/ or failed/ path and no
\* content starts no extraction, leaves isLoadingContent and both lists as
\* they are, and leaves selectedFile a copy of the record whose content is the
\* "Content Missing" text.
C18_MissingUploadShowsSentinel ==
    [][\A file \in AllFiles :
           (selectFile(file) /\ IsUploadedFile(file) /\ ~Truthy(file.content)) =>
               /\ extractions' = extractions
               /\ isLoadingContent' = isLoadingContent
               /\ previousFiles' = previousFiles
               /\ currentFiles' = currentFiles
               /\ selectedFile' = Some([file EXCEPT !.content = ContentMissingText])]_vars

\* C19: selectFile(r) on a record with valid content makes r the selected
\* record in every state, also while another record's extraction is awaited.
C19_ValidRecordIsSelected ==
    [][\A file \in AllFiles :
           (selectFile(file) /\ HasValidContent(file)) =>
               selectedFile' = Some(file)]_vars

\* C20: when a generate or refresh call is rejected, an error notification is
\* shown, the result set, the page's fingerprint and everything in storage
\* are as before the call settled, no effect is left to run, and no call is
\* in flight any more, so that the next one can start.
C20_FailedGenerationChangesNothing ==
    [][(lastOp'.op = "generation" /\ lastOp'.arg.kind = "error") =>
           /\ toast' = Some("Failed to generate")
           /\ items' = items
           /\ lastDocumentState' = lastDocumentState
           /\ localStorage' = localStorage
           /\ PagePending' = PagePending
           /\ generation' = None]_vars

\* a refresh was rejected while the page held results that are persisted
C20_Witness ==
    /\ lastOp.op = "generation"
    /\ lastOp.arg.kind = "error"
    /\ ~lastOp.fx
    /\ Len(items) > 0
    /\ page # "index"
    /\ localStorage[page] = Some(items)
    /\ toast = Some("Failed to generate")

\* C21: with fewer than 2 documents in the two lists, a generate or refresh
\* request on the similarity page empties the result set and returns, and no
\* step starts a call to the similarity collaborator.
C21_NoSimilarityCallBelowTwo ==
    /\ [][(Generate /\ page = "documentSimilarities" /\ totalFiles < 2) =>
              (generation' = None /\ items' = <<>>)]_vars
    /\ [][(page = "documentSimilarities" /\ totalFiles < 2 /\ generation = None) =>
              generation' = None]_vars

\* a request was made on the similarity page with one document
C21_Witness ==
    /\ lastOp.op = "generate"
    /\ lastOp.arg.total = 1
    /\ page = "documentSimilarities"
    /\ generation = None

\* C22: completeInitialSetup sets isInitialSetupComplete, with or without
\* records, and once set the flag stays set in every step of the store and in
\* every page reload, except in a step in which resetAll runs.
C22_SetupFlagStays ==
    /\ [][\A n \in 0..MaxBatch :
              completeInitialSetup(Batch(n)) => isInitialSetupComplete']_vars
    /\ [][(isInitialSetupComplete /\ lastOp'.op # "resetAll") =>
              isInitialSetupComplete']_vars

\* the page was reloaded after the setup was completed without records
C22_Witness ==
    /\ lastOp.op = "reload"
    /\ lastOp.arg.setup
    /\ lastOp.arg.previous = Some(<<>>)
    /\ isInitialSetupComplete
    /\ Stable

\* C23: forceRefreshFile on a record with a legacy data/ path removes every
\* record with its id from both lists and keeps the others in order, starts
\* no extraction, and leaves selectedFile a copy of the record whose content
\* is the "File Removed" text.
C23_LegacyRefreshRemoves ==
    [][\A file \in AllFiles :
           (forceRefreshFile(file) /\ IsLegacyPath(file)) =>
               /\ previousFiles' = SelectSeq(previousFiles, LAMBDA f : f.id # file.id)
               /\ currentFiles' = SelectSeq(currentFiles, LAMBDA f : f.id # file.id)
               /\ extractions' = extractions
               /\ isLoadingContent' = isLoadingContent
               /\ selectedFile' = Some([file EXCEPT !.content = FileRemovedText])]_vars

\* a legacy record was refreshed while it was in a list: it is selected as a
\* tombstone and in no list
C23_Witness ==
    /\ IsSome(selectedFile)
    /\ Get(selectedFile).content = FileRemovedText
    /\ IsLegacyPath(Get(selectedFile))
    /\ Get(selectedFile).id \notin Range(Ids(currentFiles)) \cup Range(Ids(previousFiles))
    /\ Stable

\* C24: within one drop batch at most one upload request is awaited at a time
\* and the requests settle in the order of the files, and the records of the
\* batch that are in the target list are there in the order of the files.
C24_BatchIsSequential ==
    /\ \A i \in 1..Len(uploads) :
           /\ Cardinality(uploads[i].started \ uploads[i].settled) <= 1
           /\ \A k \in uploads[i].started : \A j \in 1..(k - 1) : j \in uploads[i].settled
    /\ lastOp.op = "upload" =>
           LET assigned == lastOp.arg.assigned
               list == Ids(ListOf(lastOp.arg.target))
               Position(id) == CHOOSE p \in 1..Len(list) : list[p] = id
               Listed == {k \in DOMAIN assigned : assigned[k] \in Range(list)}
           IN \A j, k \in Listed : j < k => Position(assigned[j]) < Position(assigned[k])

\* a batch of two files has ended and both records are in the target list
C24_Witness ==
    /\ lastOp.op = "upload"
    /\ lastOp.arg.done
    /\ Len(lastOp.arg.assigned) = 2
    /\ \A k \in 1..2 : lastOp.arg.assigned[k] \in Range(Ids(ListOf(lastOp.arg.target)))

\* C25: the fingerprint is the same for every order and every split over the
\* two lists of the same ids, and differs from the fingerprint of the lists
\* with an absent id added or with one of their ids removed.
C25_FingerprintOfIdSet ==
    LET ids == Range(Ids(currentFiles)) \cup Range(Ids(previousFiles))
        RecordOf(id) == CHOOSE f \in AllFiles : f.id = id
    IN /\ \A s \in Arrangements(ids) : \A cut \in 0..Len(s) :
              DocumentStateId([i \in 1..cut |-> RecordOf(s[i])],
                              [i \in 1..(Len(s) - cut) |-> RecordOf(s[cut + i])])
                  = documentStateId
       /\ \A id \in (1..(MaxId + 1)) \ ids :
              /\ DocumentStateId(Append(currentFiles, UploadedFile(id)), previousFiles)
                     # documentStateId
              /\ DocumentStateId(currentFiles, Append(previousFiles, UploadedFile(id)))
                     # documentStateId
       /\ \A id \in ids :
              DocumentStateId(SelectSeq(currentFiles, LAMBDA f : f.id # id),
                              SelectSeq(previousFiles, LAMBDA f : f.id # id))
                  # documentStateId

\* three documents over both lists, not in the order of their ids
C25_Witness ==
    /\ Len(currentFiles) = 2
    /\ Len(previousFiles) = 1
    /\ currentFiles[1].id > currentFiles[2].id
    /\ currentFiles[2].id < previousFiles[1].id
    /\ Stable

\* C26: when no effect is pending, a selected record has the id of a record
\* in one of the lists or is the "File Removed" tombstone.
C26_SelectionIsListed ==
    (Stable /\ IsSome(selectedFile)) =>
        \/ Get(selectedFile).id \in Range(Ids(currentFiles)) \cup Range(Ids(previousFiles))
        \/ Get(selectedFile).content = FileRemovedText

\* C27: after resetAll, a step that is not a drop of files or a request for
\* generation by the user (so also the settling of an upload or of a
\* generation that was started before the reset) leaves both lists empty and
\* the six derived-result keys absent.
C27_ResetStays ==
    [][(lastOp.op = "resetAll" /\ lastOp'.op \notin {"drop", "generate"}) =>
           /\ currentFiles' = <<>>
           /\ previousFiles' = <<>>
           /\ \A k \in DerivedKeys : localStorage'[k] = None]_vars

C29_CacheSurvivesReload ==
    (/\ lastOp.op = "reloadOn"
     /\ lastOp.arg.matches
     /\ page = lastOp.arg.cache
     /\ Stable)
    => /\ items = Get(lastOp.arg.results)
       /\ generation = None

\* C30: a handler suspended at showConfirm has its dialog on the screen: the
\* promise is resolved, with the answer given, no later than the moment its
\* dialog leaves the screen, whether by a button, by hideConfirm or by a later
\* showConfirm; so no handler stays suspended once its dialog is gone.
C30_ConfirmationsSettle ==
    \A i \in 1..Len(awaiting) : confirmDialog = Some(i)

====
